---- MODULE Spec2Model ----
(***************************************************************************)
(* NFA -> DFA -> minimal DFA pipeline of the LexicalAnalyzer repository:   *)
(* NFA_Deserializer.py (document -> NFA) and DFA_Builder.py (epsilon       *)
(* closure, move, subset construction, partition refinement, BuildDFA).    *)
(***************************************************************************)
EXTENDS Integers, Sequences, FiniteSets, TLC

VARIABLES
    doc,                \* the parsed input document (json.load result)
    pc,                 \* position inside the running function
    nfa,                \* my_nfa
    dfa,                \* the DFA under construction / my_dfa
    states_map,         \* convert_nfa_to_dfa: frozenset -> DFA state name
    worklist,           \* convert_nfa_to_dfa: deque of frozensets
    processed_sets,     \* convert_nfa_to_dfa: set of expanded frozensets
    dfa_state_counter,  \* convert_nfa_to_dfa: next fresh name index
    enqueued,           \* history: every frozenset ever appended to worklist
    expanded,           \* history: every frozenset whose per-symbol loop ran
    partitions,         \* minimize_dfa: list of groups
    min_dfa,            \* the minimized DFA
    first_min,          \* result of the previous minimize_dfa call (re-minimization)
    round,              \* how many minimize_dfa calls have returned
    out_dfa,            \* content written to output_dfa_json
    out_min,            \* content written to output_min_dfa_json
    raised,             \* rendering steps that raised an exception
    stack,              \* get_epsilon_closure: work stack
    closure,            \* get_epsilon_closure: result set
    seed                \* get_epsilon_closure: the states_set argument

vars == <<doc, pc, nfa, dfa, states_map, worklist, processed_sets,
          dfa_state_counter, enqueued, expanded, partitions, min_dfa, first_min, round,
          out_dfa, out_min, raised, stack, closure, seed>>

-----------------------------------------------------------------------------
(* Bounds of the model *)

\* longest input string compared when two automata are tested for the same language
MaxLen == 4
\* most transitions (state, symbol, target) an input document of the pipeline holds
MaxDocEdges == 2
\* most transitions of an NFA handed to convert_nfa_to_dfa on its own
MaxEdges == 3
\* most states in the states_set argument of get_epsilon_closure
MaxSeed == 2

-----------------------------------------------------------------------------
(* Symbols.  The two non-ASCII spellings are written by their code points. *)

GREEK == "u03B5"          \* the one-character string "ε"
MISENC == "u00CEu00B5"    \* the two-character string "Îµ"
Letters == {"a", "b"}
\* the spellings the specification lists as epsilon
EpsSpellings == {"", "epsilon", "Epsilon", "EPSILON", GREEK, MISENC}

\* str.lower() on the symbols of the model
Lower(symbol) ==
    IF symbol \in {"Epsilon", "EPSILON"} THEN "epsilon" ELSE symbol

\* the test of get_epsilon_closure
IsEpsilon(symbol) ==
    symbol = "" \/ Lower(symbol) = "epsilon" \/ symbol = MISENC \/ symbol = GREEK

\* the test of convert_nfa_to_dfa's alphabet loop
IsAlphabetSymbolCaseSensitive(symbol) ==
    symbol # "" /\ symbol # "epsilon" /\ symbol # MISENC /\ symbol # GREEK
IsAlphabetSymbol(symbol) ==
    symbol # "" /\ Lower(symbol) # "epsilon" /\ symbol # MISENC /\ symbol # GREEK

-----------------------------------------------------------------------------
(* Helpers on sets, sequences and functions *)

EmptyMap == [x \in {} |-> {}]

Range(s) == {s[i] : i \in DOMAIN s}

RECURSIVE Perms(_)
Perms(S) ==
    IF S = {} THEN {<<>>}
    ELSE UNION {{<<x>> \o p : p \in Perms(S \ {x})} : x \in S}

\* list(a_set): one iteration order of the set
RECURSIVE SetToSeq(_)
SetToSeq(S) ==
    IF S = {} THEN <<>>
    ELSE LET x == CHOOSE y \in S : TRUE IN <<x>> \o SetToSeq(S \ {x})

RECURSIVE SubsetsUpTo(_, _)
\* Op applied to the value of v, with v evaluated a single time
Once(v, Op(_)) == CHOOSE res \in {Op(x) : x \in {v}} : TRUE

SubsetsUpTo(S, k) ==
    IF k = 0 THEN {{}}
    ELSE LET P == SubsetsUpTo(S, k - 1)
         IN P \cup {p \cup {e} : p \in P, e \in S}

-----------------------------------------------------------------------------
(* class NFA *)

NFA_init(start_state) ==
    [start_state |-> start_state, states |-> {}, final_states |-> {},
     transitions |-> EmptyMap]

NFA_add_state(n, state_name, is_final) ==
    [n EXCEPT
        !.states = @ \cup {state_name},
        !.final_states = IF is_final THEN @ \cup {state_name} ELSE @,
        !.transitions = IF state_name \in DOMAIN @ THEN @
                        ELSE @ @@ (state_name :> EmptyMap)]

NFA_add_transition(n, from_state, symbol, to_state) ==
    LET t1 == IF from_state \in DOMAIN n.transitions THEN n.transitions
              ELSE n.transitions @@ (from_state :> EmptyMap)
        row1 == IF symbol \in DOMAIN t1[from_state] THEN t1[from_state]
                ELSE t1[from_state] @@ (symbol :> {})
        row2 == [row1 EXCEPT ![symbol] = @ \cup {to_state}]
    IN [n EXCEPT !.transitions = [t1 EXCEPT ![from_state] = row2]]

-----------------------------------------------------------------------------
(* Input documents.  A document is the parsed JSON object: whether it has  *)
(* the key "startingState" and its value, the other keys (state names),    *)
(* the keys whose object has isTerminatingState true, and the transition   *)
(* entries <<state key, symbol key, target>> (a list value contributes one *)
(* entry per element).                                                     *)

Q == {"q0", "q1", "q2"}
Undeclared == "qx"
AllStates == Q \cup {Undeclared}
NoStart == "<missing>"

EdgesOver(symbols, targets) == Q \X symbols \X targets

MkDoc(hasStart, start, final, edges) ==
    [hasStart |-> hasStart, startingState |-> start, states |-> Q,
     final |-> final, edges |-> edges]

\* documents of the whole pipeline: may miss "startingState", may reference
\* an undeclared state, may mix epsilon spellings
PipelineDocs ==
    {MkDoc(TRUE, "q0", f, e) :
        f \in SUBSET Q,
        e \in SubsetsUpTo(EdgesOver({"a", "", "Epsilon"}, AllStates), MaxDocEdges)}
    \cup {MkDoc(FALSE, NoStart, {}, {})}

\* well-formed documents (every referenced state declared)
ValidDocs ==
    {MkDoc(TRUE, "q0", f, e) :
        f \in SUBSET Q,
        e \in SubsetsUpTo(EdgesOver({"a", "b", "Epsilon"}, Q), MaxEdges)}

\* documents for get_epsilon_closure on its own
ClosureDocs ==
    {MkDoc(TRUE, "q0", {}, e) :
        e \in SubsetsUpTo(EdgesOver({"a", "", "Epsilon"}, Q), MaxEdges)}

\* the same document with every epsilon key spelled sp
Respell(d, sp) ==
    [d EXCEPT !.edges =
        {<<e[1], IF e[2] \in EpsSpellings THEN sp ELSE e[2], e[3]>> : e \in @}]

-----------------------------------------------------------------------------
(* deserialize_nfa_json *)

RECURSIVE AddTransitions(_, _)
AddTransitions(n, edges) ==
    IF edges = {} THEN n
    ELSE LET e == CHOOSE x \in edges : TRUE
         IN AddTransitions(NFA_add_transition(n, e[1], e[2], e[3]), edges \ {e})

RECURSIVE AddStates(_, _, _)
AddStates(n, keys, d) ==
    IF keys = {} THEN n
    ELSE LET state_name == CHOOSE k \in keys : TRUE
             n1 == NFA_add_state(n, state_name, state_name \in d.final)
             n2 == AddTransitions(n1, {e \in d.edges : e[1] = state_name})
         IN AddStates(n2, keys \ {state_name}, d)

\* defined for documents with "startingState"; the others raise ValueError
deserialize_nfa_json(d) == AddStates(NFA_init(d.startingState), d.states, d)

-----------------------------------------------------------------------------
(* get_epsilon_closure *)

\* the targets of the epsilon-labelled entries of current_state
EpsilonTargets(n, current_state) ==
    IF current_state \in DOMAIN n.transitions
    THEN UNION {n.transitions[current_state][symbol] :
                  symbol \in {y \in DOMAIN n.transitions[current_state] : IsEpsilon(y)}}
    ELSE {}

\* one iteration of the while loop: pop the last element, then add and push
\* the targets not yet in closure, in the order `pushed` lists them
ClosureIterationNoPush(stk, clo, pushed) ==
    [stack |-> SubSeq(stk, 1, Len(stk) - 1), closure |-> clo \cup Range(pushed)]
ClosureIteration(stk, clo, pushed) ==
    [stack |-> SubSeq(stk, 1, Len(stk) - 1) \o pushed,
     closure |-> clo \cup Range(pushed)]

RECURSIVE ClosureLoop(_, _, _)
ClosureLoop(n, stk, clo) ==
    IF stk = <<>> THEN clo
    ELSE LET new == EpsilonTargets(n, stk[Len(stk)]) \ clo
             Rest(r) == ClosureLoop(n, r.stack, r.closure)
         IN Once(ClosureIteration(stk, clo, SetToSeq(new)), Rest)

get_epsilon_closure(n, states_set) ==
    ClosureLoop(n, SetToSeq(states_set), states_set)

-----------------------------------------------------------------------------
(* class DFA.  State names are the strings f"S{i}". *)

SNames == <<"S0", "S1", "S2", "S3", "S4", "S5", "S6", "S7", "S8", "S9",
            "S10", "S11", "S12", "S13", "S14", "S15", "S16">>
\* f"S{i}"
StateName(i) == SNames[i + 1]

DFA_init ==
    [start_state |-> "None", states |-> {}, final_states |-> {},
     transitions |-> EmptyMap]

DFA_add_state(d, state_name, is_final) ==
    [d EXCEPT
        !.states = @ \cup {state_name},
        !.final_states = IF is_final THEN @ \cup {state_name} ELSE @,
        !.transitions = IF state_name \in DOMAIN @ THEN @
                        ELSE @ @@ (state_name :> EmptyMap)]

DFA_add_transition(d, from_state, symbol, to_state) ==
    LET t1 == IF from_state \in DOMAIN d.transitions THEN d.transitions
              ELSE d.transitions @@ (from_state :> EmptyMap)
        row == IF symbol \in DOMAIN t1[from_state]
               THEN [t1[from_state] EXCEPT ![symbol] = to_state]
               ELSE t1[from_state] @@ (symbol :> to_state)
    IN [d EXCEPT !.transitions = [t1 EXCEPT ![from_state] = row]]

\* DFA.to_json: the document written for a DFA
to_json(d) ==
    [startingState |-> d.start_state,
     objects |-> [state \in d.states |->
        [isTerminatingState |-> state \in d.final_states,
         transitions |-> IF state \in DOMAIN d.transitions
                         THEN d.transitions[state] ELSE EmptyMap]]]

-----------------------------------------------------------------------------
(* move *)

move(n, states_set, symbol) ==
    UNION {n.transitions[state][symbol] :
             state \in {x \in states_set :
                          /\ x \in DOMAIN n.transitions
                          /\ symbol \in DOMAIN n.transitions[x]}}

-----------------------------------------------------------------------------
(* convert_nfa_to_dfa *)

\* every symbol of the model in Python's string order
SymbolOrder == <<"", "EPSILON", "Epsilon", "a", "b", "epsilon", MISENC, GREEK>>
\* sorted(list(symbols))
Sorted(symbols) ==
    LET keep(x) == x \in symbols IN SelectSeq(SymbolOrder, keep)

\* step 1: all symbols except epsilon
NfaAlphabet(n) ==
    {symbol \in UNION {DOMAIN n.transitions[src] : src \in DOMAIN n.transitions} :
        IsAlphabetSymbol(symbol)}

AnyFinal(n, S) == \E s \in S : s \in n.final_states

\* step 2 and the set-up of the loop
ConvertSetup(n) ==
    LET start_closure == get_epsilon_closure(n, {n.start_state})
    IN [dfa |-> DFA_add_state([DFA_init EXCEPT !.start_state = "S0"], "S0",
                              AnyFinal(n, start_closure)),
        states_map |-> (start_closure :> "S0"),
        worklist |-> <<start_closure>>,
        processed_sets |-> {},
        dfa_state_counter |-> 1]

\* the body of `for char in sorted(list(alphabet))` for one char
ExpandCharNoClosure(n, st, current_set, char) ==
    LET final_destination_set == move(n, current_set, char)
        known == final_destination_set \in DOMAIN st.states_map
        new_name == StateName(st.dfa_state_counter)
        st1 == IF known THEN st
               ELSE [st EXCEPT
                       !.states_map = @ @@ (final_destination_set :> new_name),
                       !.dfa_state_counter = @ + 1,
                       !.dfa = DFA_add_state(@, new_name,
                                             AnyFinal(n, final_destination_set)),
                       !.worklist = Append(@, final_destination_set)]
    IN IF final_destination_set = {} THEN st
       ELSE [st1 EXCEPT !.dfa = DFA_add_transition(@,
                 st.states_map[current_set], char,
                 st1.states_map[final_destination_set])]
\* the same body with the test `not in states_map` made on processed_sets
ExpandCharGuardOnProcessed(n, st, current_set, char) ==
    LET move_result == move(n, current_set, char)
        WithDestination(final_destination_set) ==
            LET known == final_destination_set \in st.processed_sets
                new_name == StateName(st.dfa_state_counter)
                st1 == IF known THEN st
                       ELSE [st EXCEPT
                               !.states_map =
                                   [S \in DOMAIN @ \cup {final_destination_set} |->
                                       IF S = final_destination_set THEN new_name
                                       ELSE @[S]],
                               !.dfa_state_counter = @ + 1,
                               !.dfa = DFA_add_state(@, new_name,
                                           AnyFinal(n, final_destination_set)),
                               !.worklist = Append(@, final_destination_set)]
            IN IF final_destination_set = {} THEN st
               ELSE [st1 EXCEPT !.dfa = DFA_add_transition(@,
                         st.states_map[current_set], char,
                         st1.states_map[final_destination_set])]
    IN Once(get_epsilon_closure(n, move_result), WithDestination)
ExpandChar(n, st, current_set, char) ==
    LET move_result == move(n, current_set, char)
        WithDestination(final_destination_set) ==
            LET known == final_destination_set \in DOMAIN st.states_map
                new_name == StateName(st.dfa_state_counter)
                st1 == IF known THEN st
                       ELSE [st EXCEPT
                               !.states_map = @ @@ (final_destination_set :> new_name),
                               !.dfa_state_counter = @ + 1,
                               !.dfa = DFA_add_state(@, new_name,
                                           AnyFinal(n, final_destination_set)),
                               !.worklist = Append(@, final_destination_set)]
            IN IF final_destination_set = {} THEN st
               ELSE [st1 EXCEPT !.dfa = DFA_add_transition(@,
                         st.states_map[current_set], char,
                         st1.states_map[final_destination_set])]
    IN Once(get_epsilon_closure(n, move_result), WithDestination)

RECURSIVE ExpandChars(_, _, _, _)
ExpandChars(n, st, current_set, chars) ==
    IF chars = <<>> THEN st
    ELSE LET Rest(next) == ExpandChars(n, next, current_set, Tail(chars))
         IN Once(ExpandChar(n, st, current_set, Head(chars)), Rest)

\* one iteration of `while worklist`
ConvertIteration(n, st) ==
    LET current_set == Head(st.worklist)
        popped == [st EXCEPT !.worklist = Tail(@)]
    IN IF current_set \in st.processed_sets THEN popped
       ELSE ExpandChars(n,
                [popped EXCEPT !.processed_sets = @ \cup {current_set}],
                current_set, Sorted(NfaAlphabet(n)))

RECURSIVE ConvertLoop(_, _)
ConvertLoop(n, st) ==
    IF st.worklist = <<>> THEN st ELSE ConvertLoop(n, ConvertIteration(n, st))

convert_nfa_to_dfa(n) == ConvertLoop(n, ConvertSetup(n)).dfa

-----------------------------------------------------------------------------
(* minimize_dfa *)

\* step 1: every symbol of the transition table
DfaAlphabet(d) == UNION {DOMAIN d.transitions[s] : s \in DOMAIN d.transitions}

\* step 2: [ {non-finals}, {finals} ], an empty group left out
InitialPartition(d) ==
    LET final_states == d.final_states
        non_final_states == d.states \ final_states
    IN (IF non_final_states # {} THEN <<non_final_states>> ELSE <<>>)
       \o (IF final_states # {} THEN <<final_states>> ELSE <<>>)

\* dfa.transitions.get(state, {}).get(char)
TargetOf(d, state, char) ==
    IF state \in DOMAIN d.transitions /\ char \in DOMAIN d.transitions[state]
    THEN d.transitions[state][char] ELSE "None"

\* the index (from 0) of the first group holding target_state, -1 for none
get_partition_index(target_state, current_partitions) ==
    LET hits == {idx \in DOMAIN current_partitions :
                    target_state \in current_partitions[idx]}
    IN IF target_state = "None" \/ hits = {} THEN -1
       ELSE (CHOOSE idx \in hits : \A j \in hits : idx <= j) - 1

\* is_matching of `state` against the reference state `first`
IsMatching(d, parts, first, state) ==
    \A char \in DfaAlphabet(d) :
        get_partition_index(TargetOf(d, first, char), parts)
            = get_partition_index(TargetOf(d, state, char), parts)

\* the groups one group contributes to new_partitions, `first` its reference
SplitGroupKeepWhole(d, parts, group, first) ==
    <<group>>
SplitGroup(d, parts, group, first) ==
    IF Cardinality(group) <= 1 THEN <<group>>
    ELSE LET matching_group ==
                 {first} \cup {state \in group \ {first} :
                                  IsMatching(d, parts, first, state)}
             non_matching_group == group \ matching_group
         IN IF non_matching_group # {}
            THEN <<matching_group, non_matching_group>>
            ELSE <<group>>

\* new_partitions after the groups from index i on, firsts[i] the reference
\* state of group i
RECURSIVE RefineFrom(_, _, _, _)
RefineFrom(d, parts, firsts, i) ==
    IF i > Len(parts) THEN <<>>
    ELSE SplitGroup(d, parts, parts[i], firsts[i])
         \o RefineFrom(d, parts, firsts, i + 1)

\* one iteration of `while did_split_occur`
RefinePass(d, parts, firsts) ==
    LET new_partitions == RefineFrom(d, parts, firsts, 1)
    IN [partitions |-> new_partitions,
        did_split_occur |-> Len(new_partitions) # Len(parts)]

\* one member of every group, in every way: the first element of list(group),
\* or next(iter(group))
RECURSIVE Choices(_)
Choices(parts) ==
    IF parts = <<>> THEN {<<>>}
    ELSE {<<x>> \o r : x \in Head(parts), r \in Choices(Tail(parts))}

\* step 4: the DFA over the groups, reps[i] the representative of group i
RECURSIVE AddGroupStates(_, _, _, _)
AddGroupStates(m, d, parts, i) ==
    IF i > Len(parts) THEN m
    ELSE LET new_state_name == StateName(i - 1)
             is_final == \E state \in parts[i] : state \in d.final_states
             m1 == DFA_add_state(m, new_state_name, is_final)
             m2 == IF d.start_state \in parts[i]
                   THEN [m1 EXCEPT !.start_state = new_state_name] ELSE m1
         IN AddGroupStates(m2, d, parts, i + 1)

\* state_name_map
StateNameMap(parts) ==
    [state \in UNION Range(parts) |->
        StateName((CHOOSE i \in DOMAIN parts : state \in parts[i]) - 1)]

RECURSIVE AddRepTransitionsUnmapped(_, _, _, _, _)
AddRepTransitionsUnmapped(m, d, name_map, source_name, rep_chars) ==
    IF rep_chars = <<>> THEN m
    ELSE LET char == Head(rep_chars)[2]
             target == d.transitions[Head(rep_chars)[1]][char]
             m1 == IF target \in DOMAIN name_map
                   THEN DFA_add_transition(m, source_name, char, target)
                   ELSE m
         IN AddRepTransitionsUnmapped(m1, d, name_map, source_name, Tail(rep_chars))
RECURSIVE AddRepTransitions(_, _, _, _, _)
AddRepTransitions(m, d, name_map, source_name, rep_chars) ==
    IF rep_chars = <<>> THEN m
    ELSE LET char == Head(rep_chars)[2]
             target == d.transitions[Head(rep_chars)[1]][char]
             m1 == IF target \in DOMAIN name_map
                   THEN DFA_add_transition(m, source_name, char, name_map[target])
                   ELSE m
         IN AddRepTransitions(m1, d, name_map, source_name, Tail(rep_chars))

RECURSIVE AddGroupTransitions(_, _, _, _, _)
AddGroupTransitions(m, d, parts, reps, i) ==
    IF i > Len(parts) THEN m
    ELSE LET rep == reps[i]
             name_map == StateNameMap(parts)
             chars == IF rep \in DOMAIN d.transitions
                      THEN SetToSeq({<<rep, c>> : c \in DOMAIN d.transitions[rep]})
                      ELSE <<>>
             m1 == AddRepTransitions(m, d, name_map, name_map[rep], chars)
         IN AddGroupTransitions(m1, d, parts, reps, i + 1)

Rebuild(d, parts, reps) ==
    AddGroupTransitions(AddGroupStates(DFA_init, d, parts, 1), d, parts, reps, 1)

\* the run of minimize_dfa that always takes the member CHOOSE picks
FirstMembers(parts) == [i \in DOMAIN parts |-> CHOOSE x \in parts[i] : TRUE]

RECURSIVE RefineLoop(_, _)
RefineLoop(d, parts) ==
    LET r == RefinePass(d, parts, FirstMembers(parts))
    IN IF r.did_split_occur THEN RefineLoop(d, r.partitions) ELSE r.partitions

minimize_dfa(d) ==
    LET parts == RefineLoop(d, InitialPartition(d))
    IN Rebuild(d, parts, FirstMembers(parts))

-----------------------------------------------------------------------------
(* Values of the variables a specification does not use *)

NoDoc == MkDoc(FALSE, NoStart, {}, {})
NoNFA == NFA_init(NoStart)

convVars == <<states_map, worklist, processed_sets, dfa_state_counter, enqueued,
              expanded>>
minVars == <<partitions, min_dfa, first_min, round>>
outVars == <<out_dfa, out_min, raised>>
closVars == <<stack, closure, seed>>

ConvIdle ==
    /\ states_map = EmptyMap /\ worklist = <<>> /\ processed_sets = {}
    /\ dfa_state_counter = 0 /\ enqueued = <<>> /\ expanded = <<>>
MinIdle == partitions = <<>> /\ min_dfa = DFA_init /\ first_min = DFA_init /\ round = 0
OutIdle == out_dfa = <<>> /\ out_min = <<>> /\ raised = {}
ClosIdle == stack = <<>> /\ closure = {} /\ seed = {}

-----------------------------------------------------------------------------
(* Specification of get_epsilon_closure alone: the iteration order of the  *)
(* argument set and of the dictionary and target lists is any order.       *)

InitClosure ==
    /\ doc \in ClosureDocs
    /\ nfa = deserialize_nfa_json(doc)
    /\ seed \in SubsetsUpTo(AllStates, MaxSeed)
    /\ stack \in Perms(seed)
    /\ closure = seed
    /\ pc = "closure_loop"
    /\ dfa = DFA_init
    /\ ConvIdle /\ MinIdle /\ OutIdle

ClosureStep ==
    /\ pc = "closure_loop"
    /\ stack # <<>>
    /\ \E pushed \in Perms(EpsilonTargets(nfa, stack[Len(stack)]) \ closure) :
          LET r == ClosureIteration(stack, closure, pushed)
          IN /\ stack' = r.stack
             /\ closure' = r.closure
    /\ UNCHANGED <<doc, pc, nfa, dfa, convVars, minVars, outVars, seed>>

ClosureReturn ==
    /\ pc = "closure_loop"
    /\ stack = <<>>
    /\ pc' = "closure_return"
    /\ UNCHANGED <<doc, nfa, dfa, convVars, minVars, outVars, closVars>>

NextClosure == ClosureStep \/ ClosureReturn

SpecClosure == InitClosure /\ [][NextClosure]_vars

-----------------------------------------------------------------------------
(* convert_nfa_to_dfa, one action per iteration of its worklist loop *)

ConvertStart ==
    /\ pc = "convert"
    /\ \E st \in {ConvertSetup(nfa)} :
          /\ dfa' = st.dfa
          /\ states_map' = st.states_map
          /\ worklist' = st.worklist
          /\ processed_sets' = st.processed_sets
          /\ dfa_state_counter' = st.dfa_state_counter
          /\ enqueued' = st.worklist
          /\ expanded' = <<>>
    /\ pc' = "convert_loop"
    /\ UNCHANGED <<doc, nfa, minVars, outVars, closVars>>

ConvertStep ==
    /\ pc = "convert_loop"
    /\ worklist # <<>>
    /\ \E st \in {ConvertIteration(nfa,
                    [dfa |-> dfa, states_map |-> states_map, worklist |-> worklist,
                     processed_sets |-> processed_sets,
                     dfa_state_counter |-> dfa_state_counter])} :
          /\ dfa' = st.dfa
          /\ states_map' = st.states_map
          /\ worklist' = st.worklist
          /\ processed_sets' = st.processed_sets
          /\ dfa_state_counter' = st.dfa_state_counter
          /\ enqueued' = enqueued
                \o SubSeq(st.worklist, Len(worklist), Len(st.worklist))
          /\ expanded' = IF Head(worklist) \in processed_sets THEN expanded
                         ELSE Append(expanded, Head(worklist))
    /\ UNCHANGED <<doc, pc, nfa, minVars, outVars, closVars>>

ConvertReturn ==
    /\ pc = "convert_loop"
    /\ worklist = <<>>
    /\ pc' = "convert_return"
    /\ UNCHANGED <<doc, nfa, dfa, convVars, minVars, outVars, closVars>>

-----------------------------------------------------------------------------
(* minimize_dfa, one action per pass of its refinement loop; the reference *)
(* state of a group and the representative used to rebuild are any member  *)
(* (the iteration order of a Python set of strings is not fixed)           *)

MinimizeStart ==
    /\ pc = "minimize"
    /\ partitions' = InitialPartition(dfa)
    /\ pc' = "minimize_loop"
    /\ UNCHANGED <<doc, nfa, dfa, convVars, min_dfa, first_min, round, outVars,
                   closVars>>

MinimizePass ==
    /\ pc = "minimize_loop"
    /\ \E firsts \in Choices(partitions) :
          LET r == RefinePass(dfa, partitions, firsts)
          IN /\ partitions' = r.partitions
             /\ pc' = IF r.did_split_occur THEN "minimize_loop" ELSE "minimize_rebuild"
    /\ UNCHANGED <<doc, nfa, dfa, convVars, min_dfa, first_min, round, outVars,
                   closVars>>

MinimizeRebuild ==
    /\ pc = "minimize_rebuild"
    /\ \E reps \in Choices(partitions) :
          min_dfa' = Rebuild(dfa, partitions, reps)
    /\ round' = round + 1
    /\ pc' = "minimize_return"
    /\ UNCHANGED <<doc, nfa, dfa, convVars, partitions, first_min, outVars, closVars>>

-----------------------------------------------------------------------------
(* BuildDFA *)

Init ==
    /\ doc \in PipelineDocs
    /\ pc = "start"
    /\ nfa = NoNFA
    /\ dfa = DFA_init
    /\ ConvIdle /\ MinIdle /\ OutIdle /\ ClosIdle

\* line 14: deserialize_nfa_json raises ValueError without "startingState"
Deserialize ==
    /\ pc = "start"
    /\ IF doc.hasStart
       THEN /\ nfa' = deserialize_nfa_json(doc)
            /\ pc' = "visualize_nfa"
            /\ raised' = raised
       ELSE /\ nfa' = nfa
            /\ pc' = "done"
            /\ raised' = raised \cup {"deserialize_nfa_json"}
    /\ UNCHANGED <<doc, dfa, convVars, minVars, out_dfa, out_min, closVars>>

\* line 18: visualize_nfa has no handler of its own, an exception of graphviz
\* reaches the except clause of BuildDFA
VisualizeNfa ==
    /\ pc = "visualize_nfa"
    /\ \E ok \in BOOLEAN :
          IF ok THEN pc' = "display" /\ raised' = raised
          ELSE pc' = "done" /\ raised' = raised \cup {"visualize_nfa"}
    /\ UNCHANGED <<doc, nfa, dfa, convVars, minVars, out_dfa, out_min, closVars>>

\* line 21: display(dot)
Display ==
    /\ pc = "display"
    /\ \E ok \in BOOLEAN :
          IF ok THEN pc' = "convert" /\ raised' = raised
          ELSE pc' = "done" /\ raised' = raised \cup {"display"}
    /\ UNCHANGED <<doc, nfa, dfa, convVars, minVars, out_dfa, out_min, closVars>>

\* line 30: visualize_graph catches its own exceptions
VisualizeDfa ==
    /\ pc = "convert_return"
    /\ \E ok \in BOOLEAN :
          raised' = IF ok THEN raised ELSE raised \cup {"visualize_graph dfa"}
    /\ pc' = "write_dfa"
    /\ UNCHANGED <<doc, nfa, dfa, convVars, minVars, out_dfa, out_min, closVars>>

\* lines 34-41: write my_dfa.to_json(), then call minimize_dfa
WriteDfa ==
    /\ pc = "write_dfa"
    /\ out_dfa' = <<to_json(dfa)>>
    /\ pc' = "minimize"
    /\ UNCHANGED <<doc, nfa, dfa, convVars, minVars, out_min, raised, closVars>>

\* line 46
VisualizeMin ==
    /\ pc = "minimize_return"
    /\ \E ok \in BOOLEAN :
          raised' = IF ok THEN raised ELSE raised \cup {"visualize_graph min_dfa"}
    /\ pc' = "write_min"
    /\ UNCHANGED <<doc, nfa, dfa, convVars, minVars, out_dfa, out_min, closVars>>

\* lines 50-55
WriteMin ==
    /\ pc = "write_min"
    /\ out_min' = <<to_json(min_dfa)>>
    /\ pc' = "done"
    /\ UNCHANGED <<doc, nfa, dfa, convVars, minVars, out_dfa, raised, closVars>>

Next ==
    \/ Deserialize
    \/ VisualizeNfa
    \/ Display
    \/ ConvertStart
    \/ ConvertStep
    \/ ConvertReturn
    \/ VisualizeDfa
    \/ WriteDfa
    \/ MinimizeStart
    \/ MinimizePass
    \/ MinimizeRebuild
    \/ VisualizeMin
    \/ WriteMin

Spec == Init /\ [][Next]_vars

-----------------------------------------------------------------------------
(* minimize_dfa(convert_nfa_to_dfa(nfa)) on well-formed NFAs, no rendering *)

InitConvert ==
    /\ doc \in ValidDocs
    /\ nfa = deserialize_nfa_json(doc)
    /\ pc = "convert"
    /\ dfa = DFA_init
    /\ ConvIdle /\ MinIdle /\ OutIdle /\ ClosIdle

CallMinimize ==
    /\ pc = "convert_return"
    /\ pc' = "minimize"
    /\ UNCHANGED <<doc, nfa, dfa, convVars, minVars, outVars, closVars>>

NextConvert ==
    \/ ConvertStart
    \/ ConvertStep
    \/ ConvertReturn
    \/ CallMinimize
    \/ MinimizeStart
    \/ MinimizePass
    \/ MinimizeRebuild

SpecConvert == InitConvert /\ [][NextConvert]_vars

-----------------------------------------------------------------------------
(* convert_nfa_to_dfa alone, run to its return: the function is called     *)
(* synchronously on one thread, so an iteration that can run does run      *)

\* the final states play no part in the loop: one choice of them
WorklistDocs == {d \in ValidDocs : d.final = {"q2"}}

InitWorklist ==
    /\ doc \in WorklistDocs
    /\ nfa = deserialize_nfa_json(doc)
    /\ pc = "convert"
    /\ dfa = DFA_init
    /\ ConvIdle /\ MinIdle /\ OutIdle /\ ClosIdle

NextWorklist == ConvertStart \/ ConvertStep \/ ConvertReturn

SpecWorklist == InitWorklist /\ [][NextWorklist]_vars /\ WF_vars(NextWorklist)

-----------------------------------------------------------------------------
(* minimize_dfa(minimize_dfa(D)) on every DFA D over DfaNames and Letters, *)
(* partial or total, with or without unreachable states                    *)

DfaNames == {"S0", "S1", "S2"}
DfaRows == UNION {[L -> DfaNames] : L \in SUBSET Letters}
InputDFAs ==
    {[start_state |-> "S0", states |-> DfaNames, final_states |-> f,
      transitions |-> t] : f \in SUBSET DfaNames, t \in [DfaNames -> DfaRows]}

InitMin ==
    /\ dfa \in InputDFAs
    /\ pc = "minimize"
    /\ doc = NoDoc
    /\ nfa = NoNFA
    /\ ConvIdle /\ MinIdle /\ OutIdle /\ ClosIdle

Reminimize ==
    /\ pc = "minimize_return"
    /\ round = 1
    /\ first_min' = min_dfa
    /\ dfa' = min_dfa
    /\ pc' = "minimize"
    /\ UNCHANGED <<doc, nfa, convVars, partitions, min_dfa, round, outVars, closVars>>

NextMin == MinimizeStart \/ MinimizePass \/ MinimizeRebuild \/ Reminimize

SpecMin == InitMin /\ [][NextMin]_vars

-----------------------------------------------------------------------------
(* Reference notions the claims are stated with *)

\* the epsilon-labelled arcs of an NFA, by the specification's list of spellings
EpsArcs(n) ==
    {<<s, t>> \in AllStates \X AllStates :
        /\ s \in DOMAIN n.transitions
        /\ \E y \in DOMAIN n.transitions[s] :
              y \in EpsSpellings /\ t \in n.transitions[s][y]}

EpsClosed(n, C) == \A a \in EpsArcs(n) : a[1] \in C => a[2] \in C

\* the smallest superset of S closed under epsilon transitions
SmallestEpsClosed(n, S) ==
    CHOOSE C \in SUBSET AllStates :
        /\ S \subseteq C
        /\ EpsClosed(n, C)
        /\ \A D \in SUBSET AllStates : (S \subseteq D /\ EpsClosed(n, D)) => C \subseteq D

\* the states reachable from S by zero or more epsilon transitions
RECURSIVE EpsReach(_, _)
EpsReach(n, S) ==
    LET T == S \cup {a[2] : a \in {b \in EpsArcs(n) : b[1] \in S}}
    IN IF T = S THEN S ELSE EpsReach(n, T)

\* the input strings of the language tests
Words == UNION {[1..k -> Letters] : k \in 0..MaxLen}

\* acceptance by an NFA
NfaSymbolStep(n, S, c) ==
    {t \in AllStates : \E s \in S :
        /\ s \in DOMAIN n.transitions
        /\ c \in DOMAIN n.transitions[s]
        /\ t \in n.transitions[s][c]}

RECURSIVE NfaRun(_, _, _)
NfaRun(n, S, w) ==
    IF w = <<>> THEN S
    ELSE NfaRun(n, EpsReach(n, NfaSymbolStep(n, S, Head(w))), Tail(w))

NFAAccepts(n, w) ==
    NfaRun(n, EpsReach(n, {n.start_state}), w) \cap n.final_states # {}

\* acceptance by a DFA, a missing transition rejecting
Delta(d, s, c) ==
    IF s \in DOMAIN d.transitions /\ c \in DOMAIN d.transitions[s]
    THEN d.transitions[s][c] ELSE "None"

RECURSIVE DfaRun(_, _, _)
DfaRun(d, s, w) ==
    IF w = <<>> THEN s ELSE DfaRun(d, Delta(d, s, Head(w)), Tail(w))

DFAAccepts(d, w) == DfaRun(d, d.start_state, w) \in d.final_states

\* the pairs <<set of NFA states, DFA state>> that the words of length at most
\* k lead to, one pair per word
RECURSIVE NfaDfaAfter(_, _, _)
NfaDfaAfter(n, d, k) ==
    IF k = 0 THEN {<<EpsReach(n, {n.start_state}), d.start_state>>}
    ELSE LET P == NfaDfaAfter(n, d, k - 1)
         IN P \cup {<<EpsReach(n, NfaSymbolStep(n, p[1], c)), Delta(d, p[2], c)>> :
                        p \in P, c \in Letters}

\* the NFA and the DFA accept the same words of length at most MaxLen
NfaDfaSameLanguage(n, d) ==
    \A p \in NfaDfaAfter(n, d, MaxLen) :
        (p[1] \cap n.final_states # {}) <=> (p[2] \in d.final_states)

\* the pairs of DFA states that the words of length at most k lead to
RECURSIVE DfaDfaAfter(_, _, _)
DfaDfaAfter(d1, d2, k) ==
    IF k = 0 THEN {<<d1.start_state, d2.start_state>>}
    ELSE LET P == DfaDfaAfter(d1, d2, k - 1)
         IN P \cup {<<Delta(d1, p[1], c), Delta(d2, p[2], c)>> :
                        p \in P, c \in Letters}

\* the two DFAs accept the same words of length at most MaxLen
SameLanguage(d1, d2) ==
    \A p \in DfaDfaAfter(d1, d2, MaxLen) :
        (p[1] \in d1.final_states) <=> (p[2] \in d2.final_states)

\* the pairs of states (the rejecting sink "None" among them) that some string
\* tells apart
RECURSIVE DistinguishableFrom(_, _)
DistinguishableFrom(d, D) ==
    LET X == d.states \cup {"None"}
        E == D \cup {pq \in X \X X :
                        \E c \in Letters :
                            <<Delta(d, pq[1], c), Delta(d, pq[2], c)>> \in D}
    IN IF E = D THEN D ELSE DistinguishableFrom(d, E)

Distinguishable(d) ==
    LET X == d.states \cup {"None"}
    IN DistinguishableFrom(d,
          {pq \in X \X X : (pq[1] \in d.final_states) # (pq[2] \in d.final_states)})

\* a renaming of the states of d1 that makes it d2
Isomorphic(d1, d2) ==
    /\ Cardinality(d1.states) = Cardinality(d2.states)
    /\ \E f \in [d1.states -> d2.states] :
          /\ \A t \in d2.states : \E s \in d1.states : f[s] = t
          /\ d1.start_state \in d1.states
          /\ f[d1.start_state] = d2.start_state
          /\ \A s \in d1.states :
                /\ (s \in d1.final_states) <=> (f[s] \in d2.final_states)
                /\ \A c \in Letters :
                      LET t == Delta(d1, s, c)
                      IN IF t = "None" THEN Delta(d2, f[s], c) = "None"
                         ELSE t \in d1.states /\ Delta(d2, f[s], c) = f[t]

\* the reference invariant of an automaton (targets: a set for an NFA)
NfaReferencesDeclared(n) ==
    /\ n.start_state \in n.states
    /\ \A s \in DOMAIN n.transitions : \A y \in DOMAIN n.transitions[s] :
          n.transitions[s][y] \subseteq n.states

DfaReferencesDeclared(d) ==
    /\ d.start_state \in d.states
    /\ \A s \in DOMAIN d.transitions : \A y \in DOMAIN d.transitions[s] :
          d.transitions[s][y] \in d.states

\* the symbol keys of an NFA's transition table
NfaKeys(n) == UNION {DOMAIN n.transitions[s] : s \in DOMAIN n.transitions}

-----------------------------------------------------------------------------
(* C1: for every NFA and every input string up to MaxLen over the letters, *)
(* the NFA accepts the string iff the DFA returned by convert_nfa_to_dfa   *)
(* accepts it, a missing DFA transition rejecting.  (SpecConvert)          *)
C1_SubsetConstructionEquivalence ==
    pc = "convert_return" => NfaDfaSameLanguage(nfa, dfa)

C1_Witness ==
    /\ pc = "convert_return"
    /\ EpsArcs(nfa) # {}
    /\ \E s \in Q : "a" \in DOMAIN nfa.transitions[s]
                       /\ Cardinality(nfa.transitions[s]["a"]) = 2
    /\ Cardinality(dfa.states) >= 2
    /\ \E S \in DOMAIN states_map : Cardinality(S) = 3
    /\ \E w \in Words : Len(w) >= 2 /\ NFAAccepts(nfa, w) /\ DFAAccepts(dfa, w)
    /\ \E w \in Words : ~NFAAccepts(nfa, w) /\ ~DFAAccepts(dfa, w)

-----------------------------------------------------------------------------
(* C2: for every DFA D, partial or not, and every input string up to       *)
(* MaxLen, minimize_dfa(D) accepts the string iff D accepts it, whichever  *)
(* member is the reference state of a group during refinement and the      *)
(* representative during reconstruction.  (SpecMin)                        *)
C2_MinimizationPreservesLanguage ==
    pc = "minimize_return" => SameLanguage(dfa, min_dfa)

C2_Witness ==
    /\ pc = "minimize_return"
    /\ round = 1
    /\ Cardinality(min_dfa.states) = 2
    /\ \E s \in dfa.states : \E c \in Letters : Delta(dfa, s, c) = "None"
    /\ \E w \in Words : Len(w) >= 2 /\ DFAAccepts(dfa, w)
    /\ \E w \in Words : ~DFAAccepts(dfa, w)

-----------------------------------------------------------------------------
(* C3: in minimize_dfa's result for a DFA produced by convert_nfa_to_dfa,  *)
(* every two distinct states are told apart by some string (accepted from  *)
(* one, rejected from the other).  (SpecConvert)                           *)
C3_ResultStatesPairwiseDistinguishable ==
    pc = "minimize_return" =>
        \A p \in min_dfa.states : \A q \in min_dfa.states :
            p # q => <<p, q>> \in Distinguishable(min_dfa)

-----------------------------------------------------------------------------
(* C4: minimize_dfa(minimize_dfa(D)) is minimize_dfa(D) up to a renaming   *)
(* of the states: same number of states, and a bijection that maps start   *)
(* to start and preserves finality and every transition.  (SpecMin)        *)
C4_MinimizationIdempotentUpToIsomorphism ==
    (pc = "minimize_return" /\ round = 2) => Isomorphic(first_min, min_dfa)

C4_Witness ==
    /\ pc = "minimize_return"
    /\ round = 2
    /\ Cardinality(min_dfa.states) = 3
    /\ min_dfa # first_min
    /\ \E s \in min_dfa.states : \E c \in Letters : Delta(min_dfa, s, c) # "None"

-----------------------------------------------------------------------------
(* C5: respelling the epsilon keys of the input with any recognised        *)
(* spelling leaves convert_nfa_to_dfa's result (start state, state names,  *)
(* final states, transitions, hence to_json) unchanged.  (SpecConvert)     *)
C5_EpsilonSpellingIrrelevant ==
    pc = "convert_return" =>
        \A sp \in EpsSpellings :
            LET other == convert_nfa_to_dfa(deserialize_nfa_json(Respell(doc, sp)))
            IN other = dfa /\ to_json(other) = to_json(dfa)

C5_Witness ==
    /\ pc = "convert_return"
    /\ \E s \in Q : "Epsilon" \in DOMAIN nfa.transitions[s]
    /\ \E S \in DOMAIN states_map : Cardinality(S) >= 2 /\ states_map[S] = "S0"
    /\ Cardinality(dfa.states) >= 2
    /\ deserialize_nfa_json(Respell(doc, GREEK)) # nfa

-----------------------------------------------------------------------------
(* C6: for a fixed input DFA, minimize_dfa returns the same automaton      *)
(* (names, start state, final states, transitions) for every choice of     *)
(* reference members and representatives: every run returns what the run   *)
(* taking the members in one fixed order returns.  (SpecMin)               *)
C6_MinimizationIndependentOfIterationOrder ==
    pc = "minimize_return" => min_dfa = minimize_dfa(dfa)

-----------------------------------------------------------------------------
(* C7: get_epsilon_closure(nfa, S) returns exactly the smallest superset   *)
(* of S closed under epsilon transitions, that is the states reachable     *)
(* from S by zero or more epsilon transitions, whatever the order in which *)
(* the states are popped and pushed.  (SpecClosure)                        *)
C7_ClosureIsSmallestClosedSuperset ==
    pc = "closure_return" =>
        /\ closure = SmallestEpsClosed(nfa, seed)
        /\ closure = EpsReach(nfa, seed)
        /\ closure = get_epsilon_closure(nfa, seed)

C7_Witness ==
    /\ pc = "closure_return"
    /\ Cardinality(seed) = 2
    /\ Cardinality(closure) = 3
    /\ \E s \in Q : "a" \in DOMAIN nfa.transitions[s]
    /\ "Epsilon" \in NfaKeys(nfa)

-----------------------------------------------------------------------------
(* C8: in the NFA built by deserialize_nfa_json from a document with       *)
(* "startingState", and in the DFAs returned by convert_nfa_to_dfa and     *)
(* minimize_dfa, the start state and every transition target belong to the *)
(* states set.  (Spec)                                                     *)
C8_ReferencesAreDeclared ==
    /\ ((pc # "start" /\ doc.hasStart) => NfaReferencesDeclared(nfa))
    /\ (pc = "convert_return" => DfaReferencesDeclared(dfa))
    /\ (pc = "minimize_return" => DfaReferencesDeclared(min_dfa))

-----------------------------------------------------------------------------
(* C9: after deserialize_nfa_json, every epsilon transition of             *)
(* nfa.transitions is keyed by one single marker, whatever spellings the   *)
(* document used.  (Spec)                                                  *)
C9_OneEpsilonMarkerAfterParsing ==
    (pc # "start" /\ doc.hasStart) =>
        \A y1 \in NfaKeys(nfa) : \A y2 \in NfaKeys(nfa) :
            (y1 \in EpsSpellings /\ y2 \in EpsSpellings) => y1 = y2

-----------------------------------------------------------------------------
(* C10: for a valid input document BuildDFA ends with the DFA document and *)
(* the minimized-DFA document written, with the content the automata       *)
(* have, whether or not a rendering step raised.  (Spec)                   *)
C10_RenderingFailureLeavesResults ==
    (pc = "done" /\ doc.hasStart) =>
        /\ out_dfa = <<to_json(convert_nfa_to_dfa(deserialize_nfa_json(doc)))>>
        /\ round = 1
        /\ out_min = <<to_json(min_dfa)>>

-----------------------------------------------------------------------------
(* C11: the worklist loop of convert_nfa_to_dfa empties and the function   *)
(* returns, and during the run every subset of NFA states is appended to   *)
(* the worklist at most once and expanded (its per-symbol transitions      *)
(* computed) at most once.  (SpecWorklist)                                 *)
NoDuplicates(q) == \A i \in DOMAIN q : \A j \in DOMAIN q : q[i] = q[j] => i = j

C11_WorklistEmptiesEachSubsetOnce ==
    /\ <>(pc = "convert_return" /\ worklist = <<>>)
    /\ [](NoDuplicates(enqueued) /\ NoDuplicates(expanded))

C11_Witness ==
    /\ pc = "convert_return"
    /\ worklist = <<>>
    /\ Len(enqueued) >= 3
    /\ expanded = enqueued
    /\ \E s \in dfa.states : \E c \in Letters : Delta(dfa, s, c) = s
    /\ \E s \in dfa.states : \E t \in dfa.states :
          s # t /\ Delta(dfa, s, "a") = t /\ Delta(dfa, t, "b") = s

====
